---- MODULE Spec2Model ----
(***************************************************************************)
(* Model of redshift_connector/plugin/                                     *)
(* browser_azure_oauth2_credentials_provider.py:                           *)
(* BrowserAzureOAuth2CredentialsProvider, the browser-redirect OAuth2      *)
(* authorization-code flow.  Text (the redirect payload, the token         *)
(* response body) is modelled as sequences of one-character strings, and   *)
(* str.find, slicing and json.loads are computed on them as Python does.   *)
(***************************************************************************)
EXTENDS Integers, Sequences, FiniteSets, TLC

(***************************************************************************)
(* Bounds of the model.                                                    *)
(***************************************************************************)
\* Seconds a blocking call (accept, recv) is followed for before time stops.
MaxWait == 11
\* Fields in one part returned by conn.recv.
MaxFields == 3
\* conn.recv calls that return data, per accepted connection.
MaxReads == 2
\* Connections the environment opens towards the listener, per flow.
MaxConn == 2
\* get_jwt_assertion calls on the one provider instance.
MaxFlows == 2
\* Members of the token response's JSON object.
MaxPairs == 2

(***************************************************************************)
(* Program constants.                                                      *)
(***************************************************************************)
\* __init__: self.idp_response_timeout = 120
DefaultTimeout == 120
\* check_required_parameters: idp_response_timeout < 10
MinTimeout == 10
\* random.sample(alphabet, 10)
StateLen == 10

(***************************************************************************)
(* Python text primitives.                                                 *)
(***************************************************************************)
Min(a, b) == IF a < b THEN a ELSE b

Max(a, b) == IF a > b THEN a ELSE b

\* s[a:b] with a >= 0 and b any integer: a negative b counts from the end.
Slice(s, a, b) ==
  LET n  == Len(s)
      hi == IF b < 0 THEN Max(b + n, 0) ELSE Min(b, n)
      lo == Min(a, n)
  IN  IF lo >= hi THEN <<>> ELSE SubSeq(s, lo + 1, hi)

\* s.find(sub, start): the lowest 0-based index >= start where sub occurs, or -1.
Find(s, sub, start) ==
  LET hits == { i \in start .. (Len(s) - Len(sub)) :
                  SubSeq(s, i + 1, i + Len(sub)) = sub }
  IN  IF hits = {} THEN -1 ELSE CHOOSE i \in hits : \A j \in hits : i <= j

\* OAuthParamNames.STATE.value and OAuthParamNames.IDP_CODE.value
OAuth_STATE == <<"s", "t", "a", "t", "e">>

OAuth_IDP_CODE == <<"c", "o", "d", "e">>

\* "{}=".format(name)
ParamEq(name) == name \o <<"=">>

(***************************************************************************)
(* run_server, lines 119-145: what one iteration of the read loop makes of *)
(* the part conn.recv returned.  kind is "again" (no "state=" in the part: *)
(* loop), an InterfaceError, or "ok" with the code that is returned.       *)
(***************************************************************************)
StateIdx(decoded_part) == Find(decoded_part, ParamEq(OAuth_STATE), 0)

ReceivedState(decoded_part) ==
  Slice(decoded_part, StateIdx(decoded_part) + 6,
        Find(decoded_part, <<"&">>, StateIdx(decoded_part)))

CodeIdx(decoded_part) == Find(decoded_part, ParamEq(OAuth_IDP_CODE), 0)

ReceivedCode(decoded_part) ==
  Slice(decoded_part, CodeIdx(decoded_part) + 5, StateIdx(decoded_part) - 1)

ParsePart(decoded_part, state) ==
  IF ~(StateIdx(decoded_part) > -1)
    THEN [kind |-> "again", code |-> <<>>]
  ELSE IF ReceivedState(decoded_part) # state
    THEN [kind |-> "state_mismatch", code |-> <<>>]
  ELSE IF CodeIdx(decoded_part) < 0
    THEN [kind |-> "no_code", code |-> <<>>]
  ELSE IF ReceivedCode(decoded_part) = <<>>
    THEN [kind |-> "empty_code", code |-> <<>>]
  ELSE [kind |-> "ok", code |-> ReceivedCode(decoded_part)]

(***************************************************************************)
(* The redirect request as the peer writes it: fields name=value joined by *)
(* "&".  A field list is what the peer means; Render is what is on the     *)
(* wire and what conn.recv(size).decode() hands to the loop.               *)
(***************************************************************************)
\* alphabet, line 216
alphabet ==
  <<"a", "b", "c", "d", "e", "f", "g", "h", "i", "j", "k", "l", "m",
    "n", "o", "p", "q", "r", "s", "t", "u", "v", "w", "x", "y", "z">>

\* The outcome of "".join(random.sample(alphabet, 10)) that the model follows.
StateSamples == { SubSeq(alphabet, 1, StateLen) }

\* Marks a field the request does not carry (no value is equal to it).
Absent == <<"absent">>

SESSION_STATE ==
  <<"s", "e", "s", "s", "i", "o", "n", "_", "s", "t", "a", "t", "e">>

\* Values the peer may put in state=: a sample, a sample plus one letter, or
\* other letters.
StateValues ==
  StateSamples \cup { s \o <<"x">> : s \in StateSamples }
    \cup { <<"q", "w", "e", "r", "t", "y", "u", "i", "o", "p">> }

CodeValues == { <<>>, <<"X", "Y", "Z">> }

RedirectFields ==
  [name : {OAuth_STATE}, value : StateValues]
    \cup [name : {OAuth_IDP_CODE}, value : CodeValues]
    \cup [name : {SESSION_STATE}, value : {<<"7">>}]

\* Field lists of 1..MaxFields fields, no name twice.
FieldLists ==
  UNION { { fs \in [1 .. n -> RedirectFields] :
              \A i, j \in 1 .. n : fs[i].name = fs[j].name => i = j }
          : n \in 1 .. MaxFields }

RECURSIVE Render(_)
Render(fs) ==
  IF fs = <<>> THEN <<>>
  ELSE ParamEq(Head(fs).name) \o Head(fs).value
         \o (IF Len(fs) > 1 THEN <<"&">> ELSE <<>>) \o Render(Tail(fs))

\* The value of the field called name in a field list, or Absent.
FieldValue(fs, name) ==
  IF \E i \in 1 .. Len(fs) : fs[i].name = name
    THEN fs[CHOOSE i \in 1 .. Len(fs) : fs[i].name = name].value
    ELSE Absent

(***************************************************************************)
(* The token response body, and json.loads on it.  The grammar covered is  *)
(* an object whose members are strings, or a single string; no white       *)
(* space, no escapes.  Other text is invalid JSON (JSONDecodeError).       *)
(***************************************************************************)
ACCESS_TOKEN == <<"a", "c", "c", "e", "s", "s", "_", "t", "o", "k", "e", "n">>

Quote(s) == <<"\"">> \o s \o <<"\"">>

RECURSIVE RenderMembers(_)
RenderMembers(ps) ==
  IF ps = <<>> THEN <<>>
  ELSE Quote(Head(ps)[1]) \o <<":">> \o Quote(Head(ps)[2])
         \o (IF Len(ps) > 1 THEN <<",">> ELSE <<>>) \o RenderMembers(Tail(ps))

RenderJson(ps) == <<"{">> \o RenderMembers(ps) \o <<"}">>

JsonMembers ==
  { <<ACCESS_TOKEN, <<>>>>, <<ACCESS_TOKEN, <<"J", "W", "T", "1">>>>,
    <<<<"f", "o", "o">>, <<"b", "a", "r">>>> }

JsonObjects == UNION { [1 .. n -> JsonMembers] : n \in 0 .. MaxPairs }

\* A JSON string starting at s[i] (1-based): its text and the index after it.
ScanString(s, i) ==
  IF i > Len(s) \/ s[i] # "\"" THEN [ok |-> FALSE, val |-> <<>>, next |-> i]
  ELSE LET ends == { j \in (i + 1) .. Len(s) : s[j] = "\"" }
       IN  IF ends = {} THEN [ok |-> FALSE, val |-> <<>>, next |-> i]
           ELSE LET j == CHOOSE e \in ends : \A f \in ends : e <= f
                IN  [ok |-> TRUE, val |-> SubSeq(s, i + 1, j - 1), next |-> j + 1]

JsonFail == [ok |-> FALSE, type |-> "none", items |-> <<>>, str |-> <<>>]

\* The members of an object from s[i] on, after "{" or ","; acc is what was
\* read so far.  Fails unless the object ends the text.
RECURSIVE ScanMembers(_, _, _)
ScanMembers(s, i, acc) ==
  LET k == ScanString(s, i)
      v == ScanString(s, k.next + 1)
  IN  IF ~k.ok \/ k.next > Len(s) \/ s[k.next] # ":" \/ ~v.ok \/ v.next > Len(s)
        THEN JsonFail
      ELSE IF s[v.next] = "}"
        THEN IF v.next = Len(s)
               THEN [ok |-> TRUE, type |-> "dict",
                     items |-> Append(acc, <<k.val, v.val>>), str |-> <<>>]
               ELSE JsonFail
      ELSE IF s[v.next] = ","
        THEN ScanMembers(s, v.next + 1, Append(acc, <<k.val, v.val>>))
      ELSE JsonFail

\* json.loads(content)
JsonLoads(content) ==
  IF content = <<>> THEN JsonFail
  ELSE IF content[1] = "{"
    THEN IF Len(content) = 2 /\ content[2] = "}"
           THEN [ok |-> TRUE, type |-> "dict", items |-> <<>>, str |-> <<>>]
           ELSE ScanMembers(content, 2, <<>>)
  ELSE IF content[1] = "\""
    THEN LET v == ScanString(content, 1)
         IN  IF v.ok /\ v.next = Len(content) + 1
               THEN [ok |-> TRUE, type |-> "str", items |-> <<>>, str |-> v.val]
               ELSE JsonFail
  ELSE JsonFail

\* key in d, for a dict built from items
DictHas(items, key) == \E i \in 1 .. Len(items) : items[i][1] = key

\* d[key]: json.loads keeps the last member of a repeated name
DictGet(items, key) ==
  LET hits == { i \in 1 .. Len(items) : items[i][1] = key }
  IN  items[CHOOSE i \in hits : \A j \in hits : j <= i][2]

\* extract_jwt_assertion without the check of line 282.
extract_without_empty_check(content) ==
  LET response_content == JsonLoads(content)
  IN  IF ~response_content.ok
        THEN [kind |-> "json_error", value |-> <<>>]
      ELSE IF response_content.type = "str"
        THEN [kind |-> "missing_field", value |-> <<>>]
      ELSE IF ~DictHas(response_content.items, ACCESS_TOKEN)
        THEN [kind |-> "missing_field", value |-> <<>>]
      ELSE [kind |-> "ok", value |-> DictGet(response_content.items, ACCESS_TOKEN)]

\* extract_jwt_assertion(content): the assertion, or the error raised.
extract_jwt_assertion(content) ==
  LET response_content == JsonLoads(content)
  IN  IF ~response_content.ok
        THEN [kind |-> "json_error", value |-> <<>>]
      ELSE IF response_content.type = "str"
        THEN IF Find(response_content.str, ACCESS_TOKEN, 0) = -1
               THEN [kind |-> "missing_field", value |-> <<>>]
               ELSE [kind |-> "type_error", value |-> <<>>]
      ELSE IF ~DictHas(response_content.items, ACCESS_TOKEN)
        THEN [kind |-> "missing_field", value |-> <<>>]
      ELSE IF DictGet(response_content.items, ACCESS_TOKEN) = <<>>
        THEN [kind |-> "empty_value", value |-> <<>>]
      ELSE [kind |-> "ok", value |-> DictGet(response_content.items, ACCESS_TOKEN)]

(***************************************************************************)
(* Token responses: what the token endpoint means to answer (kind and      *)
(* members) and the text that is on the wire.                              *)
(***************************************************************************)
TokenResponses ==
  [kind : {"object"}, members : JsonObjects]
    \cup [kind : {"cut"}, members : { q \in JsonObjects : Len(q) <= 1 }]
    \cup [kind : {"string"},
          members : { <<<<ACCESS_TOKEN, <<>>>>>>, <<<<<<"f", "o", "o">>, <<>>>>>> }]
    \cup [kind : {"text"}, members : {<<>>}]

\* response.text for a token response
ResponseText(r) ==
  CASE r.kind = "object" -> RenderJson(r.members)
    [] r.kind = "cut" ->
         SubSeq(RenderJson(r.members), 1, Len(RenderJson(r.members)) - 1)
    [] r.kind = "string" -> Quote(r.members[1][1])
    [] OTHER -> <<"<", "h", ">">>

\* The body that comes with an error status: not JSON.
ErrorResponse == [kind |-> "text", members |-> <<>>]

\* HTTP statuses the token endpoint answers with.
Statuses == {200, 400, 500}

\* A check that raises for server errors only.
RaisesForServerError(status) == status >= 500 /\ status < 600

\* response.raise_for_status() raises for 4xx and 5xx
RaisesForStatus(status) == status >= 400 /\ status < 600

(***************************************************************************)
(* Configuration and ports.                                                *)
(***************************************************************************)
\* Python's None
None == "None"

\* RedshiftProperty objects handed to add_parameter.
Infos ==
  [idp_tenant : {None, "t1"}, client_id : {None, "c1"},
   idp_response_timeout : {0, 5, MinTimeout}, listen_port : {0, 7890}]

\* The port the operating system hands out for bind(("127.0.0.1", 0)) in the
\* n-th call on the provider: a fresh one each time.
EphemeralPort(n) == 49152 + n

\* "http://localhost:{port}/redshift/".format(port=port)
RedirectUriFor(port) ==
  [scheme |-> "http", host |-> "localhost", port |-> port, path |-> "/redshift/"]

NoUri == [scheme |-> "", host |-> "", port |-> -1, path |-> ""]

\* info before add_parameter is called
NoInfo ==
  [idp_tenant |-> None, client_id |-> None, idp_response_timeout |-> -1,
   listen_port |-> -1]

NoResult == [stage |-> "none", kind |-> "none", value |-> <<>>]

NoResponse == [status |-> 0, kind |-> "none", members |-> <<>>]

NoRequest == [sent |-> FALSE, code |-> <<>>, redirect_uri |-> NoUri]

NoUrl == [launched |-> FALSE, redirect_uri |-> NoUri, state |-> <<>>,
          client_id |-> None, tenant |-> None]

VARIABLES
  \* the provider object (self)
  idp_tenant, client_id, idp_response_timeout, listen_port, redirectUri,
  \* the RedshiftProperty given to add_parameter, NoInfo before
  info,
  \* get_jwt_assertion / fetch_authorization_token in the calling thread
  pc, flows, state, exc, return_value, token, content, result,
  \* the listening socket of the flow
  lsock, boundPort, closeCount, pending, accepted,
  \* run_server in the pool thread, and its future
  tpc, future, conn, peerClosed, timer, reads, decoded_part, received_code,
  sentResp,
  \* the outside: the browser, the redirect request so far, the token endpoint
  browser, launches, req, tokenRequest, postCount, response

selfVars == <<idp_tenant, client_id, idp_response_timeout, listen_port, redirectUri>>

mainVars == <<pc, flows, state, exc, return_value, token, content, result>>

sockVars == <<lsock, boundPort, closeCount, pending, accepted>>

srvVars ==
  <<tpc, future, conn, peerClosed, timer, reads, decoded_part, received_code,
    sentResp>>

envVars == <<browser, launches, req, tokenRequest, postCount, response>>

vars == <<selfVars, info, mainVars, sockVars, srvVars, envVars>>

NoFuture == [status |-> "none", value |-> <<>>, error |-> "none"]

NoReq == [state |-> Absent, code |-> Absent]

\* __init__, lines 42-48
Init ==
  /\ idp_tenant = None
  /\ client_id = None
  /\ idp_response_timeout = DefaultTimeout
  /\ listen_port = 0
  /\ redirectUri = NoUri
  /\ info = NoInfo
  /\ pc = "idle"
  /\ flows = 0
  /\ state = <<>>
  /\ exc = "none"
  /\ return_value = <<>>
  /\ token = <<>>
  /\ content = <<>>
  /\ result = NoResult
  /\ lsock = "none"
  /\ boundPort = -1
  /\ closeCount = 0
  /\ pending = 0
  /\ accepted = 0
  /\ tpc = "none"
  /\ future = NoFuture
  /\ conn = "none"
  /\ peerClosed = FALSE
  /\ timer = 0
  /\ reads = 0
  /\ decoded_part = <<>>
  /\ received_code = <<>>
  /\ sentResp = 0
  /\ browser = NoUrl
  /\ launches = 0
  /\ req = NoReq
  /\ tokenRequest = NoRequest
  /\ postCount = 0
  /\ response = NoResponse

\* add_parameter, lines 50-63: a zero timeout or port keeps the field as it is
add_parameter(i) ==
  /\ pc = "idle"
  /\ info = NoInfo
  /\ info' = i
  /\ idp_tenant' = i.idp_tenant
  /\ client_id' = i.client_id
  /\ idp_response_timeout' =
       IF i.idp_response_timeout # 0 THEN i.idp_response_timeout
                                     ELSE idp_response_timeout
  /\ listen_port' = IF i.listen_port # 0 THEN i.listen_port ELSE listen_port
  /\ UNCHANGED <<redirectUri, mainVars, sockVars, srvVars, envVars>>

\* check_required_parameters without the check of line 71.
check_without_timeout == idp_tenant = None \/ client_id = None

\* check_required_parameters, lines 67-74: whether it raises InterfaceError
check_required_parameters ==
  \/ idp_tenant = None
  \/ client_id = None
  \/ idp_response_timeout = 0
  \/ idp_response_timeout < MinTimeout

Failure(stage, kind) == [stage |-> stage, kind |-> kind, value |-> <<>>]

\* get_jwt_assertion, lines 76-82: a call on the provider, up to the call of
\* fetch_authorization_token.  Locals of an earlier call are gone.
get_jwt_assertion ==
  /\ pc \in {"idle", "done", "failed"}
  /\ flows < MaxFlows
  /\ flows' = flows + 1
  /\ IF check_required_parameters
       THEN /\ pc' = "failed"
            /\ result' = Failure("check_required_parameters", "config")
       ELSE /\ pc' = "get_socket"
            /\ result' = NoResult
  /\ state' = <<>>
  /\ exc' = "none"
  /\ return_value' = <<>>
  /\ token' = <<>>
  /\ content' = <<>>
  /\ lsock' = "none"
  /\ boundPort' = -1
  /\ closeCount' = 0
  /\ pending' = 0
  /\ accepted' = 0
  /\ tpc' = "none"
  /\ future' = NoFuture
  /\ conn' = "none"
  /\ peerClosed' = FALSE
  /\ timer' = 0
  /\ reads' = 0
  /\ decoded_part' = <<>>
  /\ received_code' = <<>>
  /\ sentResp' = 0
  /\ browser' = NoUrl
  /\ launches' = 0
  /\ req' = NoReq
  /\ tokenRequest' = NoRequest
  /\ postCount' = 0
  /\ response' = NoResponse
  /\ UNCHANGED <<selfVars, info>>

\* The port s.bind(("127.0.0.1", 0)) binds: the one the system picks.
BindPort(configured, ephemeral) == ephemeral

\* The state is drawn but the socket is neither bound nor listening when
\* the flow goes on.
get_listen_socket_unbound ==
  /\ pc = "get_socket"
  /\ \E s \in StateSamples : state' = s
  /\ pc' = "set_uri"
  /\ UNCHANGED <<selfVars, info, flows, exc, return_value, token, content,
                 result, sockVars, srvVars, envVars>>

\* fetch_authorization_token lines 216-218 with get_listen_socket, lines
\* 175-179: the state is drawn, the socket is bound and listening and
\* self.listen_port is overwritten with the bound port.
get_listen_socket ==
  /\ pc = "get_socket"
  /\ \E s \in StateSamples : state' = s
  /\ boundPort' = BindPort(listen_port, EphemeralPort(flows))
  /\ listen_port' = BindPort(listen_port, EphemeralPort(flows))
  /\ lsock' = "listening"
  /\ pc' = "set_uri"
  /\ UNCHANGED <<idp_tenant, client_id, idp_response_timeout, redirectUri, info,
                 flows, exc, return_value, token, content, result,
                 closeCount, pending, accepted, srvVars, envVars>>

\* socket.socket(...) raises OSError: no socket exists, and the error leaves
\* fetch_authorization_token from outside its try statement.
get_listen_socket_fails ==
  /\ pc = "get_socket"
  /\ \E s \in StateSamples : state' = s
  /\ pc' = "failed"
  /\ result' = Failure("fetch_authorization_token", "socket_error")
  /\ UNCHANGED <<selfVars, info, flows, exc, return_value, token, content,
                 sockVars, srvVars, envVars>>

\* redirectUri built from the configured port instead.
RedirectPort_configured == info.listen_port

\* The port fetch_authorization_token formats into redirectUri, line 219.
RedirectPort == listen_port

\* line 219
set_redirectUri ==
  /\ pc = "set_uri"
  /\ redirectUri' = RedirectUriFor(RedirectPort)
  /\ pc' = "submit"
  /\ UNCHANGED <<idp_tenant, client_id, idp_response_timeout, listen_port, info,
                 flows, state, exc, return_value, token, content, result,
                 sockVars, srvVars, envVars>>

\* executor.submit(self.run_server, ...), line 223: the pool thread starts
\* run_server, which calls listen_socket.accept().
submit ==
  /\ pc = "submit"
  /\ tpc' = "accept"
  /\ future' = [status |-> "pending", value |-> <<>>, error |-> "none"]
  /\ timer' = 0
  /\ pc' = "open_browser"
  /\ UNCHANGED <<selfVars, info, flows, state, exc, return_value, token, content,
                 result, sockVars, conn, peerClosed, reads, decoded_part,
                 received_code, sentResp, envVars>>

\* get_authorization_token_url, lines 187-206
get_authorization_token_url(st) ==
  [launched |-> TRUE, redirect_uri |-> redirectUri, state |-> st,
   client_id |-> client_id, tenant |-> idp_tenant]

\* open_browser, lines 162-169, called at line 224: the browser is launched
open_browser ==
  /\ pc = "open_browser"
  /\ browser' = get_authorization_token_url(state)
  /\ launches' = launches + 1
  /\ pc' = "result"
  /\ UNCHANGED <<selfVars, info, flows, state, exc, return_value, token, content,
                 result, sockVars, srvVars, req, tokenRequest, postCount,
                 response>>

\* open_browser raises (validate_url rejects the URL, or the launcher fails):
\* the with statement is left with the exception
open_browser_fails ==
  /\ pc = "open_browser"
  /\ exc' = "browser_error"
  /\ pc' = "shutdown"
  /\ UNCHANGED <<selfVars, info, flows, state, return_value, token, content,
                 result, sockVars, srvVars, envVars>>

\* A result taken from the future without waiting for run_server to end.
future_result_nowait ==
  /\ pc = "result"
  /\ return_value' = future.value
  /\ pc' = "shutdown"
  /\ UNCHANGED <<selfVars, info, flows, state, exc, token, content, result,
                 sockVars, srvVars, envVars>>

\* future.result(), line 225: blocks until run_server has ended, then hands
\* over its return value or raises its exception
future_result ==
  /\ pc = "result"
  /\ future.status \in {"returned", "raised"}
  /\ IF future.status = "returned"
       THEN /\ return_value' = future.value
            /\ exc' = exc
       ELSE /\ return_value' = return_value
            /\ exc' = future.error
  /\ pc' = "shutdown"
  /\ UNCHANGED <<selfVars, info, flows, state, token, content, result,
                 sockVars, srvVars, envVars>>

\* An executor left without waiting for its thread, shutdown(wait=False).
executor_exit_nowait ==
  /\ pc = "shutdown"
  /\ pc' = "finally"
  /\ UNCHANGED <<selfVars, info, flows, state, exc, return_value, token, content,
                 result, sockVars, srvVars, envVars>>

\* The end of the with statement, line 222: ThreadPoolExecutor.__exit__ is
\* shutdown(wait=True), which returns once the pool thread has ended.
executor_exit ==
  /\ pc = "shutdown"
  /\ tpc = "done"
  /\ pc' = "finally"
  /\ UNCHANGED <<selfVars, info, flows, state, exc, return_value, token, content,
                 result, sockVars, srvVars, envVars>>

\* The close at the end of the try block only, not in a finally clause.
ClosesOnSuccessOnly(e) == e = "none"

\* Whether the finally clause runs listen_socket.close() for this exit.
ClosesOnExit(e) == TRUE

\* lines 227-235: the except clauses log and re-raise, the finally clause
\* closes the listening socket (connections still in its backlog are
\* dropped), and the code or the exception reaches get_jwt_assertion
fetch_authorization_token_exit ==
  /\ pc = "finally"
  /\ IF ClosesOnExit(exc)
       THEN /\ lsock' = "closed"
            /\ closeCount' = closeCount + 1
            /\ pending' = 0
       ELSE UNCHANGED <<lsock, closeCount, pending>>
  /\ IF exc = "none"
       THEN /\ token' = return_value
            /\ pc' = "post"
            /\ result' = result
       ELSE /\ token' = token
            /\ pc' = "failed"
            /\ result' = Failure("fetch_authorization_token", exc)
  /\ UNCHANGED <<selfVars, info, flows, state, exc, return_value, content,
                 boundPort, accepted, srvVars, envVars>>

\* ResponseText and extract_jwt_assertion for every body, worked out once.
Texts == [r \in TokenResponses |-> ResponseText(r)]

Extracted ==
  [c \in { Texts[r] : r \in TokenResponses } |-> extract_jwt_assertion(c)]

\* fetch_jwt_response, lines 253-267: the POST and the answer it gets
fetch_jwt_response ==
  /\ pc = "post"
  /\ tokenRequest' = [sent |-> TRUE, code |-> token, redirect_uri |-> redirectUri]
  /\ postCount' = postCount + 1
  /\ \E st \in Statuses, r \in TokenResponses :
       /\ response' = [status |-> st, kind |-> r.kind, members |-> r.members]
       /\ IF RaisesForStatus(st)
            THEN /\ r = ErrorResponse
                 /\ pc' = "failed"
                 /\ result' = Failure("fetch_jwt_response", "http_error")
                 /\ content' = content
            ELSE /\ pc' = "extract"
                 /\ result' = result
                 /\ content' = Texts[r]
  /\ UNCHANGED <<selfVars, info, flows, state, exc, return_value, token,
                 sockVars, srvVars, browser, launches, req>>

\* lines 84-85: extract_jwt_assertion(content) and the return of the assertion
get_jwt_assertion_extract ==
  /\ pc = "extract"
  /\ LET r == Extracted[content]
     IN  IF r.kind = "ok"
           THEN /\ pc' = "done"
                /\ result' = [stage |-> "extract_jwt_assertion", kind |-> "ok",
                              value |-> r.value]
           ELSE /\ pc' = "failed"
                /\ result' = Failure("extract_jwt_assertion", r.kind)
  /\ UNCHANGED <<selfVars, info, flows, state, exc, return_value, token, content,
                 sockVars, srvVars, envVars>>

(***************************************************************************)
(* The outside world around the listener, and run_server in the pool       *)
(* thread.                                                                 *)
(***************************************************************************)
\* Some local process (the browser, or anything else) connects to the
\* listening port; the connection waits in the backlog.
connect ==
  /\ lsock = "listening"
  /\ pending + accepted < MaxConn
  /\ pending' = pending + 1
  /\ UNCHANGED <<selfVars, info, mainVars, lsock, boundPort, closeCount,
                 accepted, srvVars, envVars>>

\* listen_socket.accept(), line 113, and conn.settimeout, line 114.  The
\* listening socket has no timeout: accept waits until a connection is there.
accept ==
  /\ tpc = "accept"
  /\ pending > 0
  /\ pending' = pending - 1
  /\ accepted' = accepted + 1
  /\ conn' = "open"
  /\ timer' = 0
  /\ tpc' = "recv"
  /\ UNCHANGED <<selfVars, info, mainVars, lsock, boundPort, closeCount,
                 future, peerClosed, reads, decoded_part, received_code,
                 sentResp, envVars>>

\* What the request carries so far, after one more part with fields fs.
ReqAfter(r, fs) ==
  [state |-> IF r.state = Absent THEN FieldValue(fs, OAuth_STATE) ELSE r.state,
   code  |-> IF r.code = Absent THEN FieldValue(fs, OAuth_IDP_CODE) ELSE r.code]

\* Render and ParsePart for every field list and state, worked out once.
Rendered == [fs \in FieldLists |-> Render(fs)]

Parsed ==
  [fs \in FieldLists |-> [s \in StateSamples |-> ParsePart(Rendered[fs], s)]]

\* One iteration of the loop, lines 117-143, on a part the peer has sent:
\* recv returns it, and the iteration loops, raises or goes on to send.
recv_part(fs) ==
  /\ tpc = "recv"
  /\ conn = "open"
  /\ ~peerClosed
  /\ reads < MaxReads
  /\ reads' = reads + 1
  /\ req' = ReqAfter(req, fs)
  /\ timer' = 0
  /\ LET r == Parsed[fs][state]
     IN  CASE r.kind = "again" ->
                /\ tpc' = "recv"
                /\ decoded_part' = <<>>
                /\ UNCHANGED <<future, received_code>>
           [] r.kind = "ok" ->
                /\ tpc' = "send"
                /\ decoded_part' = Rendered[fs]
                /\ received_code' = r.code
                /\ UNCHANGED future
           [] OTHER ->
                /\ tpc' = "exit"
                /\ decoded_part' = Rendered[fs]
                /\ future' = [future EXCEPT !.error = r.kind]
                /\ UNCHANGED received_code
  /\ UNCHANGED <<selfVars, info, mainVars, sockVars, conn, peerClosed, sentResp,
                 browser, launches, tokenRequest, postCount, response>>

\* The peer closes its end of the accepted connection.
peer_close ==
  /\ conn = "open"
  /\ ~peerClosed
  /\ peerClosed' = TRUE
  /\ UNCHANGED <<selfVars, info, mainVars, sockVars, tpc, future, conn, timer,
                 reads, decoded_part, received_code, sentResp, envVars>>

\* conn.recv on a connection the peer has closed returns b"" at once: find
\* gives -1 and the loop goes round, lines 117-124.
recv_eof ==
  /\ tpc = "recv"
  /\ peerClosed
  /\ ParsePart(<<>>, state).kind = "again"
  /\ timer' = 0
  /\ decoded_part' = <<>>
  /\ UNCHANGED <<selfVars, info, mainVars, sockVars, tpc, future, conn,
                 peerClosed, reads, received_code, sentResp, envVars>>

\* conn.recv raises socket.timeout: nothing came for idp_response_timeout
\* seconds since this recv was called (conn.settimeout, line 114).
recv_timeout ==
  /\ tpc = "recv"
  /\ ~peerClosed
  /\ timer >= idp_response_timeout
  /\ tpc' = "exit"
  /\ future' = [future EXCEPT !.error = "timeout"]
  /\ UNCHANGED <<selfVars, info, mainVars, sockVars, conn, peerClosed, timer,
                 reads, decoded_part, received_code, sentResp, envVars>>

\* conn.recv raises another socket error (the connection is reset).
recv_error ==
  /\ tpc = "recv"
  /\ ~peerClosed
  /\ tpc' = "exit"
  /\ future' = [future EXCEPT !.error = "socket_error"]
  /\ UNCHANGED <<selfVars, info, mainVars, sockVars, conn, peerClosed, timer,
                 reads, decoded_part, received_code, sentResp, envVars>>

\* The code is returned without a response to the browser.
return_without_response ==
  /\ tpc = "send"
  /\ tpc' = "exit"
  /\ future' = [future EXCEPT !.value = received_code]
  /\ UNCHANGED <<selfVars, info, mainVars, sockVars, conn, peerClosed, timer,
                 reads, decoded_part, received_code, sentResp, envVars>>

\* conn.send(self.close_window_http_resp()), line 144
send_close_window ==
  /\ tpc = "send"
  /\ sentResp' = sentResp + 1
  /\ tpc' = "exit"
  /\ future' = [future EXCEPT !.value = received_code]
  /\ UNCHANGED <<selfVars, info, mainVars, sockVars, conn, peerClosed, timer,
                 reads, decoded_part, received_code, envVars>>

\* conn.send raises on a connection the peer has closed (broken pipe).
send_fails ==
  /\ tpc = "send"
  /\ peerClosed
  /\ tpc' = "exit"
  /\ future' = [future EXCEPT !.error = "socket_error"]
  /\ UNCHANGED <<selfVars, info, mainVars, sockVars, conn, peerClosed, timer,
                 reads, decoded_part, received_code, sentResp, envVars>>

\* A connection closed before the return only: an exception leaves it open.
conn_exit_leaks ==
  /\ tpc = "exit"
  /\ conn' = IF future.error = "none" THEN "closed" ELSE "open"
  /\ tpc' = "done"
  /\ future' = [future EXCEPT
                  !.status = IF future.error = "none" THEN "returned" ELSE "raised"]
  /\ decoded_part' = <<>>
  /\ timer' = 0
  /\ peerClosed' = FALSE
  /\ UNCHANGED <<selfVars, info, mainVars, sockVars, reads, received_code,
                 sentResp, envVars>>

\* A server that, after a request it rejected, goes back to accept and
\* serves the next connection of the backlog.
conn_exit_retry ==
  /\ tpc = "exit"
  /\ conn' = "closed"
  /\ IF future.error # "none" /\ pending > 0
       THEN /\ tpc' = "accept"
            /\ future' = [future EXCEPT !.error = "none"]
       ELSE /\ tpc' = "done"
            /\ future' = [future EXCEPT
                 !.status = IF future.error = "none" THEN "returned" ELSE "raised"]
  /\ decoded_part' = <<>>
  /\ timer' = 0
  /\ peerClosed' = FALSE
  /\ UNCHANGED <<selfVars, info, mainVars, sockVars, reads, received_code,
                 sentResp, envVars>>

\* The end of "with conn", line 116: the connection is closed and run_server
\* ends, by line 145 or by the exception; the future is done.  The locals
\* and the connection's peer are no more.
conn_exit ==
  /\ tpc = "exit"
  /\ conn' = "closed"
  /\ tpc' = "done"
  /\ future' = [future EXCEPT
                  !.status = IF future.error = "none" THEN "returned" ELSE "raised"]
  /\ decoded_part' = <<>>
  /\ timer' = 0
  /\ peerClosed' = FALSE
  /\ UNCHANGED <<selfVars, info, mainVars, sockVars, reads, received_code,
                 sentResp, envVars>>

\* A second passes while run_server is blocked: in accept with nothing in
\* the backlog, or in recv before its timeout.
tick ==
  /\ \/ tpc = "accept" /\ pending = 0 /\ timer < MaxWait
     \/ tpc = "recv" /\ ~peerClosed /\ timer < Min(MaxWait, idp_response_timeout)
  /\ timer' = timer + 1
  /\ UNCHANGED <<selfVars, info, mainVars, sockVars, tpc, future, conn,
                 peerClosed, reads, decoded_part, received_code, sentResp,
                 envVars>>

Next ==
  \/ \E i \in Infos : add_parameter(i)
  \/ get_jwt_assertion
  \/ get_listen_socket
  \/ get_listen_socket_fails
  \/ set_redirectUri
  \/ submit
  \/ open_browser
  \/ open_browser_fails
  \/ future_result
  \/ executor_exit
  \/ fetch_authorization_token_exit
  \/ fetch_jwt_response
  \/ get_jwt_assertion_extract
  \/ connect
  \/ accept
  \/ \E fs \in FieldLists : recv_part(fs)
  \/ peer_close
  \/ recv_eof
  \/ recv_timeout
  \/ recv_error
  \/ send_close_window
  \/ send_fails
  \/ conn_exit
  \/ tick

Spec == Init /\ [][Next]_vars

\* The steps of the calling thread that need nothing from outside.  At most
\* one is possible at a time.
MainStep ==
  \/ get_listen_socket
  \/ set_redirectUri
  \/ submit
  \/ open_browser
  \/ future_result
  \/ executor_exit
  \/ fetch_authorization_token_exit
  \/ fetch_jwt_response
  \/ get_jwt_assertion_extract

\* The steps of the pool thread that need nothing more from outside.  At
\* most one is possible at a time.
ServerStep ==
  \/ accept
  \/ recv_eof
  \/ recv_timeout
  \/ send_close_window
  \/ conn_exit

\* Both threads are scheduled, and time passes.  Calls from the application,
\* connections and data from peers, and faults are not owed.
FairSpec ==
  /\ Spec
  /\ WF_vars(MainStep)
  /\ WF_vars(ServerStep)
  /\ WF_vars(tick)

(***************************************************************************)
(* Where the calling thread is, in terms of the calls.                     *)
(***************************************************************************)
\* fetch_authorization_token has returned its code to get_jwt_assertion
FatReturned ==
  \/ pc \in {"post", "extract", "done"}
  \/ pc = "failed" /\ result.stage \in {"fetch_jwt_response", "extract_jwt_assertion"}

\* fetch_authorization_token has raised to get_jwt_assertion
FatRaised == pc = "failed" /\ result.stage = "fetch_authorization_token"

\* run_server has ended for a reason other than a fault of the connection
EndedOnRequest == tpc = "done" /\ future.error \notin {"socket_error", "timeout"}

(***************************************************************************)
(* C1.  A redirect whose state field differs from the generated state      *)
(* makes the flow fail: run_server does not return a code and no token     *)
(* request is sent.                                                        *)
(***************************************************************************)
C1_MismatchNeverExchanges ==
  (req.state # Absent /\ req.state # state)
    => (future.status # "returned" /\ postCount = 0)

(***************************************************************************)
(* C2.  Once the listening socket of a flow is open, it is eventually      *)
(* closed.                                                                 *)
(***************************************************************************)
C2_ListenerEventuallyClosed == (lsock = "listening") ~> (lsock = "closed")

(***************************************************************************)
(* C3.  When no connection comes in, the flow fails with a timeout once    *)
(* idp_response_timeout seconds have passed since the capture server was   *)
(* started: run_server is never still waiting for a first connection after *)
(* more than idp_response_timeout seconds.                                 *)
(***************************************************************************)
C3_NoWaitPastTimeout ==
  (tpc = "accept" /\ accepted = 0 /\ pending = 0)
    => timer <= idp_response_timeout

(***************************************************************************)
(* C4.  When the request carries the generated state and a non-empty code  *)
(* C, in any order and with any other fields, run_server returns C and the *)
(* token request carries C.                                                *)
(***************************************************************************)
C4_CodeReachesTokenRequest ==
  (EndedOnRequest /\ req.state = state /\ req.code \notin {Absent, <<>>})
    => /\ future.status = "returned"
       /\ future.value = req.code
       /\ tokenRequest.sent => tokenRequest.code = req.code

(***************************************************************************)
(* C5.  When the request carries the generated state but no code field, or *)
(* an empty one, run_server does not return a code and no token request is *)
(* sent.                                                                   *)
(***************************************************************************)
C5_NoCodeNeverExchanges ==
  (req.state = state /\ req.code \in {Absent, <<>>})
    => (future.status # "returned" /\ postCount = 0)

(***************************************************************************)
(* C6.  The listener is bound to the configured listen_port when that is   *)
(* not zero.                                                               *)
(***************************************************************************)
C6_BindsConfiguredPort ==
  (lsock = "listening" /\ info.listen_port # 0) => boundPort = info.listen_port

(***************************************************************************)
(* C7.  The port of the redirect URI in the authorize URL the browser is   *)
(* launched with is the port the flow's listening socket is bound to, in   *)
(* every flow on the provider and for a configured port of zero too.       *)
(***************************************************************************)
C7_RedirectPortIsBoundPort ==
  browser.launched => browser.redirect_uri.port = boundPort

C7_Witness ==
  /\ browser.launched
  /\ flows = 2
  /\ info.listen_port = 0
  /\ boundPort # -1
  /\ browser.redirect_uri.port = boundPort

(***************************************************************************)
(* C8.  With no idp_tenant, no client_id or an idp_response_timeout below  *)
(* 10, a call fails with a configuration error and nothing else happens:   *)
(* no socket, no pool thread, no browser, no token request.                *)
(***************************************************************************)
C8_InvalidConfigurationRejected ==
  (idp_tenant = None \/ client_id = None \/ idp_response_timeout < 10)
    => /\ pc \in {"idle", "failed"}
       /\ pc = "failed" => result.kind = "config"
       /\ lsock = "none"
       /\ tpc = "none"
       /\ launches = 0
       /\ postCount = 0

C8_Witness ==
  /\ pc = "failed"
  /\ result.kind = "config"
  /\ idp_tenant # None
  /\ client_id # None
  /\ idp_response_timeout = 5
  /\ lsock = "none"

(***************************************************************************)
(* C9.  When fetch_authorization_token has returned or raised, the         *)
(* listening socket it opened is closed, and was closed once.              *)
(***************************************************************************)
C9_ClosedOnceBeforeExit ==
  /\ closeCount <= 1
  /\ ((FatReturned \/ FatRaised) /\ boundPort # -1)
       => (lsock = "closed" /\ closeCount = 1)

C9_Witness ==
  /\ FatRaised
  /\ result.kind = "browser_error"
  /\ lsock = "closed"
  /\ closeCount = 1

(***************************************************************************)
(* C10.  extract_jwt_assertion on a body: an object with one non-empty     *)
(* access_token member gives that value, whatever other members there are; *)
(* text that is not JSON fails; an object without access_token fails as a  *)
(* missing field; an object whose access_token is empty fails as an empty  *)
(* value.                                                                  *)
(***************************************************************************)
TokensOf(members) ==
  { i \in 1 .. Len(members) : members[i][1] = ACCESS_TOKEN }

C10_ExtractByCases ==
  (pc \in {"done", "failed"} /\ result.stage = "extract_jwt_assertion")
    => LET at == TokensOf(response.members)
       IN  /\ response.kind \in {"cut", "text"} => result.kind = "json_error"
           /\ (response.kind = "object" /\ at = {})
                => result.kind = "missing_field"
           /\ \A i \in at :
                (response.kind = "object" /\ at = {i})
                  => IF response.members[i][2] = <<>>
                       THEN result.kind = "empty_value"
                       ELSE /\ result.kind = "ok"
                            /\ pc = "done"
                            /\ result.value = response.members[i][2]

C10_Witness ==
  /\ pc = "done"
  /\ response.kind = "object"
  /\ Len(response.members) = 2
  /\ response.members[1][1] # ACCESS_TOKEN
  /\ result.value = <<"J", "W", "T", "1">>

(***************************************************************************)
(* C11.  Whenever open_browser launches the browser, the listening socket  *)
(* is already bound and listening and redirectUri is already the URI of    *)
(* its bound port; the URL the browser gets carries that URI.              *)
(***************************************************************************)
C11_BoundBeforeLaunch ==
  [][launches' > launches
       => /\ lsock = "listening"
          /\ boundPort # -1
          /\ redirectUri = RedirectUriFor(boundPort)
          /\ browser'.redirect_uri = redirectUri]_vars

C11_Witness ==
  /\ pc = "result"
  /\ launches = 1
  /\ lsock = "listening"
  /\ redirectUri = RedirectUriFor(boundPort)
  /\ browser.redirect_uri = redirectUri

(***************************************************************************)
(* C12.  The token request is sent only after run_server has returned a    *)
(* code: while the request is about to be sent, and ever after, the pool   *)
(* thread has ended with a returned value, that value is the code of the   *)
(* request, and open_browser is over.                                      *)
(***************************************************************************)
C12_PostAfterCapture ==
  (pc = "post" \/ postCount > 0)
    => /\ tpc = "done"
       /\ future.status = "returned"
       /\ token = future.value
       /\ launches = 1
       /\ tokenRequest.sent => tokenRequest.code = future.value

C12_Witness ==
  /\ postCount = 1
  /\ tokenRequest.sent
  /\ tpc = "done"
  /\ future.status = "returned"
  /\ tokenRequest.code = <<"X", "Y", "Z">>

(***************************************************************************)
(* C13.  The read loop of run_server always terminates: once run_server is *)
(* reading from the accepted connection, it eventually ends, also when the *)
(* peer closes the connection before it sent a state field.                *)
(***************************************************************************)
C13_ReadLoopTerminates == (tpc = "recv") ~> (tpc = "done")

(***************************************************************************)
(* C14.  A payload that arrives in two reads, its code field in the first  *)
(* and the generated state in the second, gives the code that the payload  *)
(* gives when it arrives in one read.  After a first read without "state=" *)
(* (a code field alone) req.code is the code of that read, and             *)
(* decoded_part is the second read while run_server has not yet ended.     *)
(***************************************************************************)
JoinedPayload ==
  ParamEq(OAuth_IDP_CODE) \o req.code \o <<"&">> \o decoded_part

ReturnsCode == tpc = "send" \/ (tpc = "exit" /\ future.error = "none")

C14_SplitReadsSameCode ==
  (/\ reads = 2
   /\ tpc \in {"send", "exit"}
   /\ future.error \notin {"timeout", "socket_error"}
   /\ decoded_part # <<>>
   /\ req.code # Absent
   /\ req.state = state
   /\ CodeIdx(decoded_part) = -1)
    => LET single == ParsePart(JoinedPayload, state)
       IN  single.kind = "ok"
             => (ReturnsCode /\ received_code = single.code)

(***************************************************************************)
(* C15.  A request that carries a state field is rejected as a state       *)
(* mismatch exactly when the value of that field differs from the          *)
(* generated state, wherever the field stands among the others.            *)
(***************************************************************************)
C15_StateAcceptedIffEqual ==
  (/\ req.state # Absent
   /\ tpc \in {"send", "exit", "done"}
   /\ future.error \notin {"timeout", "socket_error"})
    => ((future.error = "state_mismatch") <=> (req.state # state))

(***************************************************************************)
(* C16.  A call of get_jwt_assertion is single-shot: it accepts at most    *)
(* one connection, launches the browser at most once, sends at most one    *)
(* token request and closes its listener at most once; its listener, once  *)
(* bound, is not bound again; and once the call has failed, nothing of     *)
(* this happens any more within the call.                                  *)
(***************************************************************************)
C16_SingleShot ==
  /\ [](accepted <= 1 /\ launches <= 1 /\ postCount <= 1 /\ closeCount <= 1)
  /\ [][flows' = flows
          => /\ boundPort # -1 => boundPort' = boundPort
             /\ lsock = "closed" => lsock' = "closed"
             /\ pc = "failed"
                  => UNCHANGED <<lsock, boundPort, accepted, launches,
                                 postCount, tpc>>]_vars

C16_Witness ==
  /\ accepted = 1
  /\ pending = 1
  /\ tpc = "done"
  /\ future.status = "raised"
  /\ launches = 1
  /\ lsock = "listening"

(***************************************************************************)
(* C17.  When run_server returns a code, it has written the close-window   *)
(* response once, on the connection while it was open and before the code  *)
(* was handed over; when it raises for a state mismatch or a missing or    *)
(* empty code, it has written no response.                                 *)
(***************************************************************************)
C17_ResponseOnSuccessOnly ==
  /\ [](/\ sentResp <= 1
        /\ (future.status = "returned" \/ return_value # <<>>) => sentResp = 1
        /\ (conn = "closed" /\ future.error = "none") => sentResp = 1
        /\ future.error \in {"state_mismatch", "no_code", "empty_code"}
             => sentResp = 0)
  /\ [][sentResp' > sentResp
          => /\ conn = "open" /\ conn' = "open"
             /\ future.status = "pending" /\ future'.status = "pending"
             /\ return_value = <<>>]_vars

C17_Witness ==
  /\ future.status = "returned"
  /\ future.value = <<"X", "Y", "Z">>
  /\ sentResp = 1
  /\ conn = "closed"
  /\ pc = "result"

C19_TaskEndsBeforeFlow ==
  ((FatReturned \/ FatRaised) /\ future.status # "none")
    => /\ tpc = "done"
       /\ future.status \in {"returned", "raised"}

C19_Witness ==
  /\ FatRaised
  /\ result.kind = "browser_error"
  /\ launches = 0
  /\ tpc = "done"
  /\ future.status = "returned"

(***************************************************************************)
(* C20.  When run_server has ended, the connection it accepted is closed,  *)
(* however it ended: with the code, with a state mismatch, a missing or an *)
(* empty code, a timeout or a socket error.  A connection is open only     *)
(* while run_server is at work on it.                                      *)
(***************************************************************************)
C20_ConnectionClosedAtEnd ==
  /\ tpc = "done"
       => /\ accepted = 1
          /\ conn = "closed"
          /\ future.error \in {"none", "state_mismatch", "no_code",
                                "empty_code", "timeout", "socket_error"}
  /\ conn = "open" => tpc \in {"recv", "send", "exit"}

C20_Witness ==
  /\ tpc = "done"
  /\ conn = "closed"
  /\ future.status = "raised"
  /\ future.error = "timeout"
  /\ accepted = 1

====
